---- MODULE Spec2Model ----
(***************************************************************************)
(* A model of the mclang pipeline (src/compiler): lexer.py turns source    *)
(* text into tokens, parser.py builds one AST root by recursive descent,   *)
(* and top.py evaluates the tree against a chain of Environment scopes.    *)
(*                                                                         *)
(* Source text is a TLA+ string (a sequence of characters).  Python values *)
(* are tagged records; Python exceptions are outcomes [k |-> "raise", ...].*)
(* Python floats are modelled as exact reduced fractions.                  *)
(***************************************************************************)
EXTENDS Integers, Sequences, FiniteSets, TLC

VARIABLES
    inp,    \* the input descriptor: which family the source text comes from
    src,    \* the source string handed to parse(s)
    i,      \* lex: the cursor into src (0-based, as in the code)
    toks,   \* the tokens the generator lex(s) has yielded so far
    pc,     \* "lex", "parse", "eval" or "done"
    ast,    \* the outcome of parse(s)
    res,    \* the outcome of e(ast)
    envs,   \* Environment objects of the scope-level specification
    op      \* the last Environment operation of the scope-level specification

vars == <<inp, src, i, toks, pc, ast, res, envs, op>>

(***************************************************************************)
(* Characters                                                              *)
(***************************************************************************)
At(s, k) == SubSeq(s, k + 1, k + 1)

IsSpace(c) == c \in {" ", "\t", "\n", "\r"}

IsDigit(c) == c \in {"0", "1", "2", "3", "4", "5", "6", "7", "8", "9"}

IsAlpha(c) ==
    c \in {"a", "b", "c", "d", "e", "f", "g", "h", "i", "j", "k", "l", "m",
           "n", "o", "p", "q", "r", "s", "t", "u", "v", "w", "x", "y", "z",
           "A", "B", "C", "D", "E", "F", "G", "H", "I", "J", "K", "L", "M",
           "N", "O", "P", "Q", "R", "S", "T", "U", "V", "W", "X", "Y", "Z"}

IsAlnum(c) == IsAlpha(c) \/ IsDigit(c)

(***************************************************************************)
(* lexer.py: tokens                                                        *)
(***************************************************************************)
IntToken(v) == [type |-> "Int", v |-> v]

FloatToken(v) == [type |-> "Float", v |-> v]

OperatorToken(o) == [type |-> "Operator", v |-> o]

KeywordToken(w) == [type |-> "Keyword", v |-> w]

ParenToken(w) == [type |-> "Paren", v |-> w]

\* The place in the token stream where the generator raises ValueError
\* instead of yielding: whoever pulls this position gets the exception.
LexRaise(msg, t) == [type |-> "ValueError", v |-> t, msg |-> msg]

(***************************************************************************)
(* lexer.py: lex, one iteration of its outer loop                          *)
(***************************************************************************)
RECURSIVE SkipSpace(_, _)
SkipSpace(s, k) ==
    IF k < Len(s) /\ IsSpace(At(s, k)) THEN SkipSpace(s, k + 1) ELSE k

RECURSIVE ScanNumber(_, _, _, _, _)
ScanNumber(s, k, t, isFloat, isValid) ==
    IF k < Len(s) /\ (IsDigit(At(s, k)) \/ At(s, k) = ".")
    THEN IF At(s, k) = "."
         THEN ScanNumber(s, k + 1, t \o At(s, k), TRUE,
                         IF isFloat THEN FALSE ELSE isValid)
         ELSE ScanNumber(s, k + 1, t \o At(s, k), isFloat, isValid)
    ELSE [i |-> k, t |-> t, isFloat |-> isFloat, isValid |-> isValid]

RECURSIVE ScanWord(_, _, _)
ScanWord(s, k, t) ==
    IF k < Len(s) /\ (IsAlnum(At(s, k)) \/ At(s, k) = "_")
    THEN ScanWord(s, k + 1, t \o At(s, k))
    ELSE [i |-> k, t |-> t]

\* s[k:k+2]: a Python slice stops at the end of the string.
Slice2(s, k) == SubSeq(s, k + 1, IF k + 2 <= Len(s) THEN k + 2 ELSE Len(s))

\* A lexer that knows no two-character operator.
TwoCharOps_None == {}

TwoCharOps == {"<=", ">=", "==", "!=", "**"}

OneCharOps == {"+", "-", "*", "/", "<", ">", "=", "!"}

\* The token at cursor k (k < Len(s), s[k] not a space): the new cursor and
\* what the generator does there.
LexToken(s, k) ==
    LET c == At(s, k) IN
    IF IsDigit(c)
    THEN LET n == ScanNumber(s, k + 1, c, FALSE, TRUE) IN
         IF ~n.isValid
         THEN [i |-> n.i, tok |-> LexRaise("Invalid number token found", n.t)]
         ELSE IF n.isFloat
              THEN [i |-> n.i, tok |-> FloatToken(n.t)]
              ELSE [i |-> n.i, tok |-> IntToken(n.t)]
    ELSE IF IsAlpha(c) \/ c = "_"
    THEN LET w == ScanWord(s, k + 1, c) IN
         [i |-> w.i, tok |-> KeywordToken(w.t)]
    ELSE IF c = "(" \/ c = ")"
    THEN [i |-> k + 1, tok |-> ParenToken(c)]
    ELSE IF c = "{" \/ c = "}"
    THEN [i |-> k + 1, tok |-> OperatorToken(c)]
    ELSE IF c \in OneCharOps
    THEN IF Slice2(s, k) \in TwoCharOps
         THEN [i |-> k + 2, tok |-> OperatorToken(Slice2(s, k))]
         ELSE [i |-> k + 1, tok |-> OperatorToken(c)]
    ELSE IF c \in {";", "%", ",", "[", "]"}
    THEN [i |-> k + 1, tok |-> OperatorToken(c)]
    ELSE [i |-> k, tok |-> LexRaise("Unexpected character found", c)]

\* One pass of `while True`: skip whitespace, then return, yield or raise.
lex(s, k) ==
    LET j == SkipSpace(s, k) IN
    IF j = Len(s)
    THEN [i |-> j, tok |-> [type |-> "StopIteration"]]
    ELSE LexToken(s, j)

(***************************************************************************)
(* top.py: AST nodes                                                       *)
(***************************************************************************)
BinOp(o, l, r) == [node |-> "BinOp", op |-> o, left |-> l, right |-> r]

UnOp(o, n) == [node |-> "UnOp", op |-> o, num |-> n]

FloatLit(v) == [node |-> "Float", val |-> v]

IntLit(v) == [node |-> "Int", val |-> v]

NoneNode == [node |-> "None"]

If(c, t, b, el) ==
    [node |-> "If", cond |-> c, then |-> t, elseif_branches |-> b, elsee |-> el]

VarDecl(n, v) == [node |-> "VarDecl", name |-> n, value |-> v]

VarReference(n) == [node |-> "VarReference", name |-> n]

Assignment(n, v) == [node |-> "Assignment", name |-> n, value |-> v]

Program(ss) == [node |-> "Program", statements |-> ss]

For(init, c, inc, b) ==
    [node |-> "For", init |-> init, condition |-> c, increment |-> inc, body |-> b]

While(c, b) == [node |-> "While", condition |-> c, body |-> b]

PrintNode(x) == [node |-> "Print", expr |-> x]

FunctionCall(n, a) == [node |-> "FunctionCall", name |-> n, args |-> a]

ArrayLiteral(els) == [node |-> "ArrayLiteral", elements |-> els]

ArrayIndex(a, x) == [node |-> "ArrayIndex", array |-> a, index |-> x]

FunctionDef(n, ps, b) == [node |-> "FunctionDef", name |-> n, params |-> ps, body |-> b]

Return(v) == [node |-> "Return", value |-> v]

(***************************************************************************)
(* parser.py: the token cursor.  ts is what lex(s) yields, p the 1-based   *)
(* position of the next token, Peek the peekable's t.peek(None).           *)
(***************************************************************************)
NoneTok == [type |-> "None"]

Peek(ts, p) == IF p <= Len(ts) THEN ts[p] ELSE NoneTok

Ok(n, p) == [ok |-> TRUE, node |-> n, pos |-> p]

Fail(exc, msg, p) == [ok |-> FALSE, exc |-> exc, msg |-> msg, pos |-> p]

ParseError(msg, p) == Fail("ParseError", msg, p)

expect(ts, p, what, msg) ==
    IF Peek(ts, p) = what THEN Ok(NoneNode, p + 1) ELSE ParseError(msg, p)

KwIf == "agr_teri_maa_chudi_aur"

KwElse == "varna"

KwVar == "madarchod_ye_hai"

KwPrint == "bol_behen_ke_lund"

KwFor == "for"

KwWhile == "jab_tak_teri_maa_chude_aur"

KwDef == "iski_maa_ki_choot_def"

KwReturn == "chod_de"

\* The words parse_atom and the function-name check refuse as a name.
AtomReserved ==
    {"agr_teri_maa_chudi_aur", "varna", " madarchod_ye_hai", "and", "or",
     "bol_behen_ke_lund", "for", "jab_tak_teri_maa_chude_aur"}

\* The words the var-declaration check refuses as a variable name.
VarReserved == {"if", "else", "var", "for", "while", "and", "or", "print"}

ComparisonOps == {"<", "<=", ">", ">=", "==", "!="}

\* A call made inside parse.  f is the function, or the loop of a function,
\* that is entered with the token cursor at p; x holds the locals a loop
\* goes on from.
RECURSIVE Call(_, _, _, _)

parse_comparison(ts, p) ==
    LET l == Call("parse_add_sub", ts, p, <<>>) IN
    IF ~l.ok THEN l ELSE
    LET tk == Peek(ts, l.pos) IN
    IF tk.type = "Operator" /\ tk.v \in ComparisonOps
    THEN LET r == Call("parse_add_sub", ts, l.pos + 1, <<>>) IN
         IF ~r.ok THEN r ELSE Ok(BinOp(tk.v, l.node, r.node), r.pos)
    ELSE l

logic_and_loop(ts, p, expr) ==
    IF Peek(ts, p) = KeywordToken("and")
    THEN LET right == Call("parse_comparison", ts, p + 1, <<>>) IN
         IF ~right.ok THEN right
         ELSE Call("logic_and_loop", ts, right.pos,
                   <<BinOp("and", expr, right.node)>>)
    ELSE Ok(expr, p)

parse_logic_and(ts, p) ==
    LET expr == Call("parse_comparison", ts, p, <<>>) IN
    IF ~expr.ok THEN expr ELSE Call("logic_and_loop", ts, expr.pos, <<expr.node>>)

logic_or_loop(ts, p, expr) ==
    IF Peek(ts, p) = KeywordToken("or")
    THEN LET right == Call("parse_logic_and", ts, p + 1, <<>>) IN
         IF ~right.ok THEN right
         ELSE Call("logic_or_loop", ts, right.pos,
                   <<BinOp("or", expr, right.node)>>)
    ELSE Ok(expr, p)

parse_logic_or(ts, p) ==
    LET expr == Call("parse_logic_and", ts, p, <<>>) IN
    IF ~expr.ok THEN expr ELSE Call("logic_or_loop", ts, expr.pos, <<expr.node>>)

add_sub_loop(ts, p, a) ==
    LET tk == Peek(ts, p) IN
    IF tk = OperatorToken("+") \/ tk = OperatorToken("-")
    THEN LET r == Call("parse_mul_div", ts, p + 1, <<>>) IN
         IF ~r.ok THEN r
         ELSE Call("add_sub_loop", ts, r.pos, <<BinOp(tk.v, a, r.node)>>)
    ELSE Ok(a, p)

parse_add_sub(ts, p) ==
    LET a == Call("parse_mul_div", ts, p, <<>>) IN
    IF ~a.ok THEN a ELSE Call("add_sub_loop", ts, a.pos, <<a.node>>)

mul_div_loop(ts, p, a) ==
    LET tk == Peek(ts, p) IN
    IF tk.type = "Operator" /\ tk.v \in {"*", "/", "%"}
    THEN LET r == Call("parse_exp", ts, p + 1, <<>>) IN
         IF ~r.ok THEN r
         ELSE Call("mul_div_loop", ts, r.pos, <<BinOp(tk.v, a, r.node)>>)
    ELSE Ok(a, p)

parse_mul_div(ts, p) ==
    LET a == Call("parse_exp", ts, p, <<>>) IN
    IF ~a.ok THEN a ELSE Call("mul_div_loop", ts, a.pos, <<a.node>>)

parse_exp(ts, p) ==
    LET l == Call("parse_if", ts, p, <<>>) IN
    IF ~l.ok THEN l ELSE
    IF Peek(ts, l.pos) = OperatorToken("**")
    THEN LET r == Call("parse_if", ts, l.pos + 1, <<>>) IN
         IF ~r.ok THEN r ELSE Ok(BinOp("**", l.node, r.node), r.pos)
    ELSE l

\* The `while t.peek(None) == KeywordToken("varna")` loop of parse_if.
else_loop(ts, p, cond, then_expr, elseif_branches) ==
    IF Peek(ts, p) = KeywordToken(KwElse)
    THEN IF Peek(ts, p + 1) = KeywordToken(KwIf)
         THEN LET elseif_cond == Call("parse_logic_or", ts, p + 2, <<>>) IN
              IF ~elseif_cond.ok THEN elseif_cond ELSE
              LET elseif_then == Call("parse_block", ts, elseif_cond.pos, <<>>) IN
              IF ~elseif_then.ok THEN elseif_then ELSE
              Call("else_loop", ts, elseif_then.pos,
                   <<cond, then_expr,
                     Append(elseif_branches,
                            <<elseif_cond.node, elseif_then.node>>)>>)
         ELSE LET else_expr == Call("parse_block", ts, p + 1, <<>>) IN
              IF ~else_expr.ok THEN else_expr ELSE
              Ok(If(cond, then_expr, elseif_branches, else_expr.node),
                 else_expr.pos)
    ELSE Ok(If(cond, then_expr, elseif_branches, NoneNode), p)

parse_if(ts, p) ==
    IF Peek(ts, p) # KeywordToken(KwIf) THEN Call("parse_atom", ts, p, <<>>) ELSE
    LET cond == Call("parse_logic_or", ts, p + 1, <<>>) IN
    IF ~cond.ok THEN cond ELSE
    LET then_expr == Call("parse_block", ts, cond.pos, <<>>) IN
    IF ~then_expr.ok THEN then_expr ELSE
    Call("else_loop", ts, then_expr.pos, <<cond.node, then_expr.node, <<>> >>)

\* `while t.peek(None) == OperatorToken(','): next(t); xs.append(parse_logic_or())`
comma_loop(ts, p, xs) ==
    IF Peek(ts, p) = OperatorToken(",")
    THEN LET x == Call("parse_logic_or", ts, p + 1, <<>>) IN
         IF ~x.ok THEN x
         ELSE Call("comma_loop", ts, x.pos, <<Append(xs, x.node)>>)
    ELSE Ok(xs, p)

\* The comma-separated expressions up to (not including) the closing token.
expr_list(ts, p, close) ==
    IF Peek(ts, p) # close
    THEN LET x == Call("parse_logic_or", ts, p, <<>>) IN
         IF ~x.ok THEN x ELSE Call("comma_loop", ts, x.pos, << <<x.node>> >>)
    ELSE Ok(<<>>, p)

\* Postfix array indexing: x[1] or [1,2,3][2].
index_loop(ts, p, n) ==
    IF Peek(ts, p) = OperatorToken("[")
    THEN LET index_expr == Call("parse_logic_or", ts, p + 1, <<>>) IN
         IF ~index_expr.ok THEN index_expr ELSE
         LET c == expect(ts, index_expr.pos, OperatorToken("]"), "") IN
         IF ~c.ok THEN c
         ELSE Call("index_loop", ts, c.pos, <<ArrayIndex(n, index_expr.node)>>)
    ELSE Ok(n, p)

atom_head(ts, p) ==
    LET tk == Peek(ts, p) IN
    IF tk.type = "Int" THEN Ok(IntLit(tk.v), p + 1)
    ELSE IF tk.type = "Float" THEN Ok(FloatLit(tk.v), p + 1)
    ELSE IF tk = ParenToken("(")
    THEN LET n == Call("parse_logic_or", ts, p + 1, <<>>) IN
         IF ~n.ok THEN n ELSE
         LET c == expect(ts, n.pos, ParenToken(")"), "") IN
         IF ~c.ok THEN c ELSE Ok(n.node, c.pos)
    ELSE IF tk = OperatorToken("-")
    THEN LET n == Call("parse_atom", ts, p + 1, <<>>) IN
         IF ~n.ok THEN n ELSE Ok(UnOp("-", n.node), n.pos)
    ELSE IF tk = OperatorToken("[")
    THEN LET els == Call("expr_list", ts, p + 1, <<OperatorToken("]")>>) IN
         IF ~els.ok THEN els ELSE
         LET c == expect(ts, els.pos, OperatorToken("]"), "") IN
         IF ~c.ok THEN c ELSE Ok(ArrayLiteral(els.node), c.pos)
    ELSE IF tk.type = "Keyword" /\ tk.v \notin AtomReserved
    THEN IF Peek(ts, p + 1) = ParenToken("(")
         THEN LET call_args == Call("expr_list", ts, p + 2, <<ParenToken(")")>>) IN
              IF ~call_args.ok THEN call_args ELSE
              LET c == expect(ts, call_args.pos, ParenToken(")"),
                              "Unclosed parenthesis in function call") IN
              IF ~c.ok THEN c ELSE Ok(FunctionCall(tk.v, call_args.node), c.pos)
         ELSE Ok(VarReference(tk.v), p + 1)
    ELSE ParseError("Unexpected token in atom", p)

parse_atom(ts, p) ==
    LET n == Call("atom_head", ts, p, <<>>) IN
    IF ~n.ok THEN n ELSE Call("index_loop", ts, n.pos, <<n.node>>)

\* The statement loop of parse_block: until the stream ends or `}` is next.
block_loop(ts, p, statements) ==
    IF Peek(ts, p) # NoneTok /\ Peek(ts, p) # OperatorToken("}")
    THEN LET st == Call("parse_statement", ts, p, <<>>) IN
         IF ~st.ok THEN st ELSE
         Call("block_loop", ts,
              IF Peek(ts, st.pos) = OperatorToken(";")
              THEN st.pos + 1 ELSE st.pos,
              <<Append(statements, st.node)>>)
    ELSE Ok(statements, p)

\* `Program(statements) if len(statements) > 1 else statements[0]`:
\* statements[0] of an empty list raises IndexError.
BlockNode(statements, p) ==
    IF Len(statements) > 1 THEN Ok(Program(statements), p)
    ELSE IF Len(statements) = 1 THEN Ok(statements[1], p)
    ELSE Fail("IndexError", "list index out of range", p)

parse_block(ts, p) ==
    LET o == expect(ts, p, OperatorToken("{"), "Expected '{' at beginning of block") IN
    IF ~o.ok THEN o ELSE
    LET body == Call("block_loop", ts, o.pos, << <<>> >>) IN
    IF ~body.ok THEN body ELSE
    LET c == expect(ts, body.pos, OperatorToken("}"), "Missing closing '}' after block") IN
    IF ~c.ok THEN c ELSE BlockNode(body.node, c.pos)

\* The parameter names after the first one.
RECURSIVE param_loop(_, _, _)
param_loop(ts, p, params) ==
    IF Peek(ts, p) = OperatorToken(",")
    THEN LET token == Peek(ts, p + 1) IN
         IF token.type # "Keyword"
         THEN ParseError("Expected parameter name", p + 1)
         ELSE param_loop(ts, p + 2, Append(params, token.v))
    ELSE Ok(params, p)

param_list(ts, p) ==
    IF Peek(ts, p) # ParenToken(")")
    THEN LET token == Peek(ts, p) IN
         IF token.type # "Keyword"
         THEN ParseError("Expected parameter name", p)
         ELSE param_loop(ts, p + 1, <<token.v>>)
    ELSE Ok(<<>>, p)

parse_def(ts, p) ==
    LET token == Peek(ts, p + 1) IN
    IF ~(token.type = "Keyword" /\ token.v \notin AtomReserved)
    THEN ParseError("Expected function name after 'def'", p + 1) ELSE
    LET o == expect(ts, p + 2, ParenToken("("), "Expected '(' after function name") IN
    IF ~o.ok THEN o ELSE
    LET params == param_list(ts, o.pos) IN
    IF ~params.ok THEN params ELSE
    LET c == expect(ts, params.pos, ParenToken(")"), "Expected ')' after parameter list") IN
    IF ~c.ok THEN c ELSE
    LET body == Call("parse_block", ts, c.pos, <<>>) IN
    IF ~body.ok THEN body ELSE
    Ok(FunctionDef(token.v, params.node, body.node), body.pos)

parse_return(ts, p) ==
    LET expr == Call("parse_logic_or", ts, p + 1, <<>>) IN
    IF ~expr.ok THEN expr ELSE Ok(Return(expr.node), expr.pos)

parse_print(ts, p) ==
    LET o == expect(ts, p + 1, ParenToken("("), "Expected '(' after 'print'") IN
    IF ~o.ok THEN o ELSE
    LET expr == Call("parse_logic_or", ts, o.pos, <<>>) IN
    IF ~expr.ok THEN expr ELSE
    LET c == expect(ts, expr.pos, ParenToken(")"), "Expected ')' after print argument") IN
    IF ~c.ok THEN c ELSE Ok(PrintNode(expr.node), c.pos)

parse_for(ts, p) ==
    LET o == expect(ts, p + 1, ParenToken("("), "Expected '(' after 'for'") IN
    IF ~o.ok THEN o ELSE
    LET init == Call("parse_statement", ts, o.pos, <<>>) IN
    IF ~init.ok THEN init ELSE
    LET s1 == expect(ts, init.pos, OperatorToken(";"),
                     "Expected ';' after for-loop initializer") IN
    IF ~s1.ok THEN s1 ELSE
    LET condition == Call("parse_logic_or", ts, s1.pos, <<>>) IN
    IF ~condition.ok THEN condition ELSE
    LET s2 == expect(ts, condition.pos, OperatorToken(";"),
                     "Expected ';' after for-loop condition") IN
    IF ~s2.ok THEN s2 ELSE
    LET increment == Call("parse_statement", ts, s2.pos, <<>>) IN
    IF ~increment.ok THEN increment ELSE
    LET c == expect(ts, increment.pos, ParenToken(")"),
                    "Expected ')' after for-loop increment") IN
    IF ~c.ok THEN c ELSE
    LET body == Call("parse_block", ts, c.pos, <<>>) IN
    IF ~body.ok THEN body ELSE
    Ok(For(init.node, condition.node, increment.node, body.node), body.pos)

parse_while(ts, p) ==
    LET o == expect(ts, p + 1, ParenToken("("), "Expected '(' after 'while'") IN
    IF ~o.ok THEN o ELSE
    LET condition == Call("parse_logic_or", ts, o.pos, <<>>) IN
    IF ~condition.ok THEN condition ELSE
    LET c == expect(ts, condition.pos, ParenToken(")"),
                    "Expected ')' after while-loop condition") IN
    IF ~c.ok THEN c ELSE
    LET body == Call("parse_block", ts, c.pos, <<>>) IN
    IF ~body.ok THEN body ELSE Ok(While(condition.node, body.node), body.pos)

parse_var(ts, p) ==
    LET token == Peek(ts, p + 1) IN
    IF ~(token.type = "Keyword" /\ token.v \notin VarReserved)
    THEN ParseError("Expected variable name after 'var'", p + 1) ELSE
    LET eq == expect(ts, p + 2, OperatorToken("="),
                     "Expected '=' after variable name in declaration") IN
    IF ~eq.ok THEN eq ELSE
    LET expr == Call("parse_logic_or", ts, eq.pos, <<>>) IN
    IF ~expr.ok THEN expr ELSE Ok(VarDecl(token.v, expr.node), expr.pos)

\* The `case _` of parse_statement: an expression, or an assignment when the
\* expression is a bare variable reference followed by `=`.
parse_expr_statement(ts, p) ==
    LET expr == Call("parse_logic_or", ts, p, <<>>) IN
    IF ~expr.ok THEN expr ELSE
    IF expr.node.node = "VarReference" /\ Peek(ts, expr.pos) = OperatorToken("=")
    THEN LET rhs == Call("parse_logic_or", ts, expr.pos + 1, <<>>) IN
         IF ~rhs.ok THEN rhs ELSE Ok(Assignment(expr.node.name, rhs.node), rhs.pos)
    ELSE expr

parse_statement(ts, p) ==
    LET tk == Peek(ts, p) IN
    IF tk = KeywordToken(KwDef) THEN Call("parse_def", ts, p, <<>>)
    ELSE IF tk = KeywordToken(KwReturn) THEN Call("parse_return", ts, p, <<>>)
    ELSE IF tk = KeywordToken(KwPrint) THEN Call("parse_print", ts, p, <<>>)
    ELSE IF tk = KeywordToken(KwFor) THEN Call("parse_for", ts, p, <<>>)
    ELSE IF tk = KeywordToken(KwWhile) THEN Call("parse_while", ts, p, <<>>)
    ELSE IF tk = KeywordToken(KwVar) THEN Call("parse_var", ts, p, <<>>)
    ELSE Call("parse_expr_statement", ts, p, <<>>)

\* The statement loop of parse_program: until the stream ends.
program_loop(ts, p, statements) ==
    IF Peek(ts, p) # NoneTok
    THEN LET st == Call("parse_statement", ts, p, <<>>) IN
         IF ~st.ok THEN st ELSE
         Call("program_loop", ts,
              IF Peek(ts, st.pos) = OperatorToken(";")
              THEN st.pos + 1 ELSE st.pos,
              <<Append(statements, st.node)>>)
    ELSE Ok(statements, p)

\* `statements[0] if len(statements) == 1 else Program(statements)`
ProgramNode(statements, p) ==
    IF Len(statements) = 1 THEN Ok(statements[1], p) ELSE Ok(Program(statements), p)

parse_program(ts) ==
    LET body == Call("program_loop", ts, 1, << <<>> >>) IN
    IF ~body.ok THEN body ELSE ProgramNode(body.node, body.pos)

Call(f, ts, p, x) ==
    CASE f = "parse_comparison" -> parse_comparison(ts, p)
      [] f = "parse_logic_and" -> parse_logic_and(ts, p)
      [] f = "parse_logic_or" -> parse_logic_or(ts, p)
      [] f = "parse_add_sub" -> parse_add_sub(ts, p)
      [] f = "parse_mul_div" -> parse_mul_div(ts, p)
      [] f = "parse_exp" -> parse_exp(ts, p)
      [] f = "parse_if" -> parse_if(ts, p)
      [] f = "parse_atom" -> parse_atom(ts, p)
      [] f = "parse_block" -> parse_block(ts, p)
      [] f = "parse_statement" -> parse_statement(ts, p)
      [] f = "logic_and_loop" -> logic_and_loop(ts, p, x[1])
      [] f = "logic_or_loop" -> logic_or_loop(ts, p, x[1])
      [] f = "add_sub_loop" -> add_sub_loop(ts, p, x[1])
      [] f = "mul_div_loop" -> mul_div_loop(ts, p, x[1])
      [] f = "else_loop" -> else_loop(ts, p, x[1], x[2], x[3])
      [] f = "comma_loop" -> comma_loop(ts, p, x[1])
      [] f = "expr_list" -> expr_list(ts, p, x[1])
      [] f = "index_loop" -> index_loop(ts, p, x[1])
      [] f = "atom_head" -> atom_head(ts, p)
      [] f = "block_loop" -> block_loop(ts, p, x[1])
      [] f = "parse_def" -> parse_def(ts, p)
      [] f = "parse_return" -> parse_return(ts, p)
      [] f = "parse_print" -> parse_print(ts, p)
      [] f = "parse_for" -> parse_for(ts, p)
      [] f = "parse_while" -> parse_while(ts, p)
      [] f = "parse_var" -> parse_var(ts, p)
      [] f = "parse_expr_statement" -> parse_expr_statement(ts, p)
      [] f = "program_loop" -> program_loop(ts, p, x[1])
      [] f = "parse_program" -> parse_program(ts)

\* parse(s) over the tokens of lex(s).  The parser pulls tokens one at a
\* time; every ParseError is raised right after a peek at the current
\* position, so when that position is where the generator raises, the
\* peek raised the lexer's ValueError first.
parse(ts) ==
    LET r == Call("parse_program", ts, 1, <<>>) IN
    IF ~r.ok /\ r.exc = "ParseError" /\ Peek(ts, r.pos).type = "ValueError"
    THEN Fail("ValueError", Peek(ts, r.pos).msg, r.pos)
    ELSE r

(***************************************************************************)
(* Python values.  bool is a subclass of int; a float is kept as the exact *)
(* fraction num/den (den > 0, lowest terms).                               *)
(***************************************************************************)
IntV(n) == [t |-> "int", i |-> n]

BoolV(b) == [t |-> "bool", b |-> b]

NoneV == [t |-> "none"]

ListV(xs) == [t |-> "list", elems |-> xs]

UserFunction(params, body, closure) ==
    [t |-> "UserFunction", params |-> params, body |-> body, closure |-> closure]

Abs(n) == IF n < 0 THEN -n ELSE n

RECURSIVE Gcd(_, _)
Gcd(a, b) == IF b = 0 THEN a ELSE Gcd(b, a % b)

FloatV(n, d) ==
    LET g == Gcd(Abs(n), Abs(d))
        sg == IF d < 0 THEN -1 ELSE 1
    IN  [t |-> "float", num |-> sg * (n \div g), den |-> sg * (d \div g)]

\* isinstance(v, int)
IsInt(v) == v.t \in {"int", "bool"}

IsNum(v) == v.t \in {"int", "bool", "float"}

\* The integer an int or bool stands for.
AsInt(v) == IF v.t = "bool" THEN (IF v.b THEN 1 ELSE 0) ELSE v.i

Num(v) == IF v.t = "float" THEN v.num ELSE AsInt(v)

Den(v) == IF v.t = "float" THEN v.den ELSE 1

\* Python's // and % on integers: the quotient is floored, the remainder
\* takes the sign of the divisor.
FloorDiv(a, b) == IF b > 0 THEN a \div b ELSE (-a) \div (-b)

PyMod(a, b) == a - b * FloorDiv(a, b)

RECURSIVE Pow(_, _)
Pow(b, n) == IF n = 0 THEN 1 ELSE b * Pow(b, n - 1)

\* bool(v), as `if` and `while` take it.
Truthy(v) ==
    CASE v.t = "int" -> v.i # 0
      [] v.t = "bool" -> v.b
      [] v.t = "float" -> v.num # 0
      [] v.t = "none" -> FALSE
      [] v.t = "list" -> Len(v.elems) > 0
      [] v.t = "UserFunction" -> TRUE

\* int(v) of a run of decimal digits.
DigitVal(c) ==
    CASE c = "0" -> 0 [] c = "1" -> 1 [] c = "2" -> 2 [] c = "3" -> 3
      [] c = "4" -> 4 [] c = "5" -> 5 [] c = "6" -> 6 [] c = "7" -> 7
      [] c = "8" -> 8 [] c = "9" -> 9

RECURSIVE ParseDigits(_, _, _)
ParseDigits(v, k, acc) ==
    IF k > Len(v) THEN acc
    ELSE ParseDigits(v, k + 1, acc * 10 + DigitVal(SubSeq(v, k, k)))

PyInt(v) == IntV(ParseDigits(v, 1, 0))

\* float(v) of digits with one ".": the digits without the point over the
\* power of ten of the places after it.
RECURSIVE ParseDecimal(_, _, _, _, _)
ParseDecimal(v, k, acc, scale, seen) ==
    IF k > Len(v) THEN FloatV(acc, scale)
    ELSE IF SubSeq(v, k, k) = "." THEN ParseDecimal(v, k + 1, acc, scale, TRUE)
    ELSE ParseDecimal(v, k + 1, acc * 10 + DigitVal(SubSeq(v, k, k)),
                      IF seen THEN scale * 10 ELSE scale, seen)

PyFloat(v) == ParseDecimal(v, 1, 0, 1, FALSE)

\* str(v), the line print(v) writes.  The text of a float, list or function
\* is kept as the value itself.
RECURSIVE NatStr(_)
NatStr(n) ==
    LET d == SubSeq("0123456789", (n % 10) + 1, (n % 10) + 1) IN
    IF n < 10 THEN d ELSE NatStr(n \div 10) \o d

PyStr(v) ==
    CASE v.t = "int" -> IF v.i < 0 THEN "-" \o NatStr(-v.i) ELSE NatStr(v.i)
      [] v.t = "bool" -> IF v.b THEN "True" ELSE "False"
      [] v.t = "none" -> "None"
      [] OTHER -> [repr |-> v]

\* a == b in Python: numbers compare by value across int, bool and float,
\* lists element by element, everything else by being the same value.
RECURSIVE PyEq(_, _)
PyEq(a, b) ==
    IF IsNum(a) /\ IsNum(b) THEN Num(a) * Den(b) = Num(b) * Den(a)
    ELSE IF a.t = "list" /\ b.t = "list"
    THEN /\ Len(a.elems) = Len(b.elems)
         /\ \A k \in 1..Len(a.elems) : PyEq(a.elems[k], b.elems[k])
    ELSE a.t = b.t /\ a = b

\* a < b on numbers.
NumLt(a, b) == Num(a) * Den(b) < Num(b) * Den(a)

(***************************************************************************)
(* top.py: what `match op` of BinOp computes from the two operand values.  *)
(* A result is a value or a raised exception.                              *)
(***************************************************************************)
RV(v) == [k |-> "val", v |-> v]

RX(exc, msg) == [k |-> "raise", exc |-> exc, msg |-> msg]

RECURSIVE Repeat(_, _)
Repeat(xs, n) == IF n <= 0 THEN <<>> ELSE xs \o Repeat(xs, n - 1)

\* left_val ** right_val on numbers; a fractional exponent is outside the
\* float model.
PyPow(l, r) ==
    IF IsInt(r) \/ r.den = 1
    THEN LET n == Num(r) IN
         IF n >= 0
         THEN IF IsInt(l) /\ IsInt(r)
              THEN RV(IntV(Pow(AsInt(l), n)))
              ELSE RV(FloatV(Pow(Num(l), n), Pow(Den(l), n)))
         ELSE IF Num(l) = 0
              THEN RX("ZeroDivisionError", "0.0 cannot be raised to a negative power")
              ELSE RV(FloatV(Pow(Den(l), -n), Pow(Num(l), -n)))
    ELSE [k |-> "fractional exponent"]

\* left_val % right_val on numbers.
PyRem(l, r) ==
    IF Num(r) = 0 THEN RX("ZeroDivisionError", "modulo by zero")
    ELSE IF IsInt(l) /\ IsInt(r) THEN RV(IntV(PyMod(AsInt(l), AsInt(r))))
    ELSE LET n == Num(l) * Den(r)
             d == Den(l) * Num(r)
             q == FloorDiv(n, d)
         IN  RV(FloatV(Num(l) * Den(r) - q * Num(r) * Den(l), Den(l) * Den(r)))

\* A division that floors whenever both operands are integers.
PyDiv_Floor(l, r) ==
    IF ~IsNum(l) \/ ~IsNum(r)
    THEN RX("TypeError", "unsupported operand type(s)")
    ELSE IF Num(r) = 0 THEN RX("ZeroDivisionError", "division by zero")
    ELSE IF IsInt(l) /\ IsInt(r)
    THEN RV(IntV(FloorDiv(AsInt(l), AsInt(r))))
    ELSE RV(FloatV(Num(l) * Den(r), Den(l) * Num(r)))

\* case "/": an exact integer division stays an integer, anything else is
\* Python's true division.
PyDiv(l, r) ==
    IF ~IsNum(l) \/ ~IsNum(r)
    THEN RX("TypeError", "unsupported operand type(s)")
    ELSE IF Num(r) = 0 THEN RX("ZeroDivisionError", "division by zero")
    ELSE IF IsInt(l) /\ Num(PyRem(l, r).v) = 0
    THEN IF IsInt(r)
         THEN RV(IntV(FloorDiv(AsInt(l), AsInt(r))))
         ELSE RV(FloatV(FloorDiv(Num(l) * Den(r), Num(r)), 1))
    ELSE RV(FloatV(Num(l) * Den(r), Den(l) * Num(r)))

PyAdd(l, r) ==
    IF IsInt(l) /\ IsInt(r) THEN RV(IntV(AsInt(l) + AsInt(r)))
    ELSE IF IsNum(l) /\ IsNum(r)
    THEN RV(FloatV(Num(l) * Den(r) + Num(r) * Den(l), Den(l) * Den(r)))
    ELSE IF l.t = "list" /\ r.t = "list" THEN RV(ListV(l.elems \o r.elems))
    ELSE RX("TypeError", "unsupported operand type(s)")

PySub(l, r) ==
    IF IsInt(l) /\ IsInt(r) THEN RV(IntV(AsInt(l) - AsInt(r)))
    ELSE IF IsNum(l) /\ IsNum(r)
    THEN RV(FloatV(Num(l) * Den(r) - Num(r) * Den(l), Den(l) * Den(r)))
    ELSE RX("TypeError", "unsupported operand type(s)")

PyMul(l, r) ==
    IF IsInt(l) /\ IsInt(r) THEN RV(IntV(AsInt(l) * AsInt(r)))
    ELSE IF IsNum(l) /\ IsNum(r) THEN RV(FloatV(Num(l) * Num(r), Den(l) * Den(r)))
    ELSE IF l.t = "list" /\ IsInt(r) THEN RV(ListV(Repeat(l.elems, AsInt(r))))
    ELSE IF IsInt(l) /\ r.t = "list" THEN RV(ListV(Repeat(r.elems, AsInt(l))))
    ELSE RX("TypeError", "unsupported operand type(s)")

\* <, <=, >, >= : defined between numbers; the ordering of two lists is
\* outside the model.
PyCmp(o, l, r) ==
    IF IsNum(l) /\ IsNum(r)
    THEN RV(BoolV(CASE o = "<" -> NumLt(l, r)
                    [] o = "<=" -> ~NumLt(r, l)
                    [] o = ">" -> NumLt(r, l)
                    [] o = ">=" -> ~NumLt(l, r)))
    ELSE IF l.t = "list" /\ r.t = "list" THEN [k |-> "list ordering"]
    ELSE RX("TypeError", "not supported between instances")

ApplyBinOp(o, left_val, right_val) ==
    CASE o = "**" ->
            IF IsNum(left_val) /\ IsNum(right_val) THEN PyPow(left_val, right_val)
            ELSE RX("TypeError", "unsupported operand type(s)")
      [] o = "*" -> PyMul(left_val, right_val)
      [] o = "/" -> PyDiv(left_val, right_val)
      [] o = "%" ->
            IF IsNum(left_val) /\ IsNum(right_val) THEN PyRem(left_val, right_val)
            ELSE RX("TypeError", "unsupported operand type(s)")
      [] o = "+" -> PyAdd(left_val, right_val)
      [] o = "-" -> PySub(left_val, right_val)
      [] o \in {"<", "<=", ">", ">="} -> PyCmp(o, left_val, right_val)
      [] o = "==" -> RV(BoolV(PyEq(left_val, right_val)))
      [] o = "!=" -> RV(BoolV(~PyEq(left_val, right_val)))
      [] o = "and" -> RV(IF Truthy(left_val) THEN right_val ELSE left_val)
      [] o = "or" -> RV(IF Truthy(left_val) THEN left_val ELSE right_val)
      [] OTHER -> RX("ValueError", "Unsupported binary operator")

(***************************************************************************)
(* top.py: Environment.  An Environment object is its index in the list    *)
(* of all objects created so far; parent 0 is None.                        *)
(***************************************************************************)
Environment(parent) == [parent |-> parent, values |-> <<>>]

\* self.values[name] = value
SetItem(values, name, value) ==
    [n \in DOMAIN values \cup {name} |-> IF n = name THEN value ELSE values[n]]

RECURSIVE lookup(_, _, _)
lookup(es, self, name) ==
    IF name \in DOMAIN es[self].values THEN RV(es[self].values[name])
    ELSE IF es[self].parent # 0 THEN lookup(es, es[self].parent, name)
    ELSE RX("ValueError", "Variable not defined")

\* An assignment that, finding no scope that defines the name, creates the
\* binding in the outermost scope.
RECURSIVE assign_CreatesGlobal(_, _, _, _)
assign_CreatesGlobal(es, self, name, value) ==
    IF name \in DOMAIN es[self].values \/ es[self].parent = 0
    THEN [k |-> "val", envs |->
            [es EXCEPT ![self].values = SetItem(es[self].values, name, value)]]
    ELSE assign_CreatesGlobal(es, es[self].parent, name, value)

\* assign returns the objects after the call, or the exception.
RECURSIVE assign(_, _, _, _)
assign(es, self, name, value) ==
    IF name \in DOMAIN es[self].values
    THEN [k |-> "val", envs |->
            [es EXCEPT ![self].values = SetItem(es[self].values, name, value)]]
    ELSE IF es[self].parent # 0 THEN assign(es, es[self].parent, name, value)
    ELSE RX("ValueError", "Variable not defined")

declare(es, self, name, value) ==
    [es EXCEPT ![self].values = SetItem(es[self].values, name, value)]

(***************************************************************************)
(* top.py: e(tree, env).  st is the interpreter's store: every Environment *)
(* object created so far (envs) and the lines written to standard output   *)
(* (out).  An outcome is a returned value or a raised exception, with the  *)
(* store at that moment.                                                   *)
(***************************************************************************)
Val(v, st) == [k |-> "val", v |-> v, st |-> st]

Raise(exc, msg, st) == [k |-> "raise", exc |-> exc, msg |-> msg, st |-> st]

ReturnException(value, st) ==
    [k |-> "raise", exc |-> "ReturnException", value |-> value, st |-> st]

Lift(r, st) == IF r.k = "val" THEN Val(r.v, st) ELSE Raise(r.exc, r.msg, st)

\* max(*evaluated_args): one argument must be an iterable, two or more are
\* compared with each other (numbers; the first of equal ones is kept; the
\* ordering of two lists is outside the model).
RECURSIVE MaxOf(_, _, _)
MaxOf(xs, k, best) ==
    IF k > Len(xs) THEN RV(best)
    ELSE IF xs[k].t = "list" /\ best.t = "list" THEN [k |-> "list ordering"]
    ELSE IF ~IsNum(xs[k]) \/ ~IsNum(best)
    THEN RX("TypeError", "not supported between instances")
    ELSE MaxOf(xs, k + 1, IF NumLt(best, xs[k]) THEN xs[k] ELSE best)

RECURSIVE MinOf(_, _, _)
MinOf(xs, k, best) ==
    IF k > Len(xs) THEN RV(best)
    ELSE IF xs[k].t = "list" /\ best.t = "list" THEN [k |-> "list ordering"]
    ELSE IF ~IsNum(xs[k]) \/ ~IsNum(best)
    THEN RX("TypeError", "not supported between instances")
    ELSE MinOf(xs, k + 1, IF NumLt(xs[k], best) THEN xs[k] ELSE best)

PyMax(evaluated_args) ==
    IF Len(evaluated_args) = 0
    THEN RX("TypeError", "max expected at least 1 argument, got 0")
    ELSE IF Len(evaluated_args) = 1
    THEN IF evaluated_args[1].t # "list"
         THEN RX("TypeError", "object is not iterable")
         ELSE IF Len(evaluated_args[1].elems) = 0
         THEN RX("ValueError", "max() arg is an empty sequence")
         ELSE MaxOf(evaluated_args[1].elems, 2, evaluated_args[1].elems[1])
    ELSE MaxOf(evaluated_args, 2, evaluated_args[1])

PyMin(evaluated_args) ==
    IF Len(evaluated_args) = 0
    THEN RX("TypeError", "min expected at least 1 argument, got 0")
    ELSE IF Len(evaluated_args) = 1
    THEN IF evaluated_args[1].t # "list"
         THEN RX("TypeError", "object is not iterable")
         ELSE IF Len(evaluated_args[1].elems) = 0
         THEN RX("ValueError", "min() arg is an empty sequence")
         ELSE MinOf(evaluated_args[1].elems, 2, evaluated_args[1].elems[1])
    ELSE MinOf(evaluated_args, 2, evaluated_args[1])

\* arr[idx - 1] on a Python list: an index from -len to len - 1 is served
\* (a negative one counts from the end), any other raises IndexError.
GetItem(arr, k) ==
    IF arr.t # "list" THEN RX("TypeError", "object is not subscriptable")
    ELSE LET n == Len(arr.elems) IN
         IF 0 <= k /\ k < n THEN RV(arr.elems[k + 1])
         ELSE IF -n <= k /\ k < 0 THEN RV(arr.elems[n + k + 1])
         ELSE RX("IndexError", "list index out of range")

\* for param, arg in zip(func.params, evaluated_args): new_env.declare(param, arg)
RECURSIVE BindParams(_, _, _, _, _)
BindParams(es, new_env, params, evaluated_args, k) ==
    IF k > Len(params) THEN es
    ELSE BindParams(declare(es, new_env, params[k], evaluated_args[k]),
                    new_env, params, evaluated_args, k + 1)

\* Environment(parent): the new object and the store that holds it.
NewEnv(st, parent) == [st EXCEPT !.envs = Append(st.envs, Environment(parent))]

RECURSIVE e(_, _, _), e_program(_, _, _, _, _), e_list(_, _, _, _, _),
          e_elseif(_, _, _, _), e_for(_, _, _, _), e_while(_, _, _, _)

\* case Program(stmts)
e_program(stmts, k, env, st, result) ==
    IF k > Len(stmts) THEN Val(result, st)
    ELSE LET r == e(stmts[k], env, st) IN
         IF r.k # "val" THEN r ELSE e_program(stmts, k + 1, env, r.st, r.v)

\* [e(a, env) for a in items]
e_list(items, k, env, st, acc) ==
    IF k > Len(items) THEN Val(acc, st)
    ELSE LET r == e(items[k], env, st) IN
         IF r.k # "val" THEN r ELSE e_list(items, k + 1, env, r.st, Append(acc, r.v))

\* A branch evaluated in the scope of the `if` itself.
IfBranch_SameScope(body, env, st) == e(body, env, st)

\* The branch a truthy condition selects runs in Environment(env).
IfBranch(body, env, st) == e(body, Len(st.envs) + 1, NewEnv(st, env))

\* for elseif_cond, elseif_then in elseif_branches, then the else part
e_elseif(tree, k, env, st) ==
    IF k > Len(tree.elseif_branches)
    THEN IF tree.elsee # NoneNode THEN IfBranch(tree.elsee, env, st)
         ELSE Val(NoneV, st)
    ELSE LET c == e(tree.elseif_branches[k][1], env, st) IN
         IF c.k # "val" THEN c
         ELSE IF Truthy(c.v) THEN IfBranch(tree.elseif_branches[k][2], env, c.st)
         ELSE e_elseif(tree, k + 1, env, c.st)

e_if(tree, env, st) ==
    IF tree.cond = NoneNode
    THEN Raise("ValueError", "Condition missing in 'if' statement", st)
    ELSE IF \E k \in 1..Len(tree.elseif_branches) : tree.elseif_branches[k][1] = NoneNode
    THEN Raise("ValueError", "Condition missing in 'elseif' statement", st)
    ELSE LET c == e(tree.cond, env, st) IN
         IF c.k # "val" THEN c
         ELSE IF Truthy(c.v) THEN IfBranch(tree.then, env, c.st)
         ELSE e_elseif(tree, 1, env, c.st)

\* A body evaluated in the scope of the loop itself.
ForBody_LoopScope(body, env, st) == e(body, env, st)

\* One iteration of the body of For runs in Environment(env).
ForBody(body, env, st) == e(body, Len(st.envs) + 1, NewEnv(st, env))

\* while e(condition, env): result = e(body, Environment(env)); e(increment, env)
e_for(tree, env, st, result) ==
    LET c == e(tree.condition, env, st) IN
    IF c.k # "val" THEN c
    ELSE IF ~Truthy(c.v) THEN Val(result, c.st)
    ELSE LET b == ForBody(tree.body, env, c.st) IN
         IF b.k # "val" THEN b
         ELSE LET inc == e(tree.increment, env, b.st) IN
              IF inc.k # "val" THEN inc ELSE e_for(tree, env, inc.st, b.v)

\* A while loop whose every iteration runs in a scope of its own.
e_while_ChildScope(tree, env, st, result) ==
    LET c == e(tree.condition, env, st) IN
    IF c.k # "val" THEN c
    ELSE IF ~Truthy(c.v) THEN Val(result, c.st)
    ELSE LET b == e(tree.body, Len(c.st.envs) + 1, NewEnv(c.st, env)) IN
         IF b.k # "val" THEN b ELSE e_while(tree, env, b.st, b.v)

\* while e(condition, env): result = e(body, env)
e_while(tree, env, st, result) ==
    LET c == e(tree.condition, env, st) IN
    IF c.k # "val" THEN c
    ELSE IF ~Truthy(c.v) THEN Val(result, c.st)
    ELSE LET b == e(tree.body, env, c.st) IN
         IF b.k # "val" THEN b ELSE e_while(tree, env, b.st, b.v)

\* The callee's scope hung under the scope of the call site.
CallEnv_CallSite(func, env) == env

\* The scope a user function's body runs in: Environment(func.closure).
CallEnv(func, env) == func.closure

\* A call that lets the return signal through.
CatchReturn_Propagate(r) == r

\* try: return e(func.body, new_env) / except ReturnException as re: return re.value
CatchReturn(r) ==
    IF r.k = "raise" /\ r.exc = "ReturnException" THEN Val(r.value, r.st) ELSE r

e_call(tree, env, st) ==
    LET a == e_list(tree.args, 1, env, st, <<>>) IN
    IF a.k # "val" THEN a ELSE
    LET evaluated_args == a.v
        found == lookup(a.st.envs, env, tree.name)
        func == IF found.k = "val" THEN found.v ELSE NoneV
    IN  IF func.t = "UserFunction"
        THEN IF Len(evaluated_args) # Len(func.params)
             THEN Raise("ValueError", "Function expects a different number of arguments", a.st)
             ELSE LET s1 == NewEnv(a.st, CallEnv(func, env))
                      new_env == Len(s1.envs)
                      s2 == [s1 EXCEPT !.envs = BindParams(s1.envs, new_env,
                                                func.params, evaluated_args, 1)]
                  IN  CatchReturn(e(func.body, new_env, s2))
        ELSE IF tree.name = "max" THEN Lift(PyMax(evaluated_args), a.st)
        ELSE IF tree.name = "min" THEN Lift(PyMin(evaluated_args), a.st)
        ELSE Raise("ValueError", "Unknown function", a.st)

e_index(tree, env, st) ==
    LET arr == e(tree.array, env, st) IN
    IF arr.k # "val" THEN arr ELSE
    LET idx == e(tree.index, env, arr.st) IN
    IF idx.k # "val" THEN idx
    ELSE IF ~IsInt(idx.v)
    THEN Raise("ValueError", "Array index must be an integer", idx.st)
    ELSE Lift(GetItem(arr.v, AsInt(idx.v) - 1), idx.st)

\* A BinOp whose `and` and `or` skip the right operand when the left one
\* decides.
e_binop_ShortCircuit(tree, env, st) ==
    LET left_val == e(tree.left, env, st) IN
    IF left_val.k # "val" THEN left_val ELSE
    IF (tree.op = "and" /\ ~Truthy(left_val.v)) \/ (tree.op = "or" /\ Truthy(left_val.v))
    THEN left_val ELSE
    LET right_val == e(tree.right, env, left_val.st) IN
    IF right_val.k # "val" THEN right_val
    ELSE Lift(ApplyBinOp(tree.op, left_val.v, right_val.v), right_val.st)

e_binop(tree, env, st) ==
    LET left_val == e(tree.left, env, st) IN
    IF left_val.k # "val" THEN left_val ELSE
    LET right_val == e(tree.right, env, left_val.st) IN
    IF right_val.k # "val" THEN right_val
    ELSE Lift(ApplyBinOp(tree.op, left_val.v, right_val.v), right_val.st)

e(tree, env, st) ==
    CASE tree.node = "FunctionDef" ->
            LET uf == UserFunction(tree.params, tree.body, env) IN
            Val(uf, [st EXCEPT !.envs = declare(st.envs, env, tree.name, uf)])
      [] tree.node = "Program" -> e_program(tree.statements, 1, env, st, NoneV)
      [] tree.node = "VarDecl" ->
            LET result == e(tree.value, env, st) IN
            IF result.k # "val" THEN result
            ELSE Val(result.v, [result.st EXCEPT
                        !.envs = declare(result.st.envs, env, tree.name, result.v)])
      [] tree.node = "Assignment" ->
            LET result == e(tree.value, env, st) IN
            IF result.k # "val" THEN result
            ELSE LET a == assign(result.st.envs, env, tree.name, result.v) IN
                 IF a.k # "val" THEN Raise(a.exc, a.msg, result.st)
                 ELSE Val(result.v, [result.st EXCEPT !.envs = a.envs])
      [] tree.node = "VarReference" -> Lift(lookup(st.envs, env, tree.name), st)
      [] tree.node = "Int" -> Val(PyInt(tree.val), st)
      [] tree.node = "Float" -> Val(PyFloat(tree.val), st)
      [] tree.node = "UnOp" /\ tree.op = "-" ->
            LET r == e(tree.num, env, st) IN
            IF r.k # "val" THEN r ELSE Lift(PyMul(IntV(-1), r.v), r.st)
      [] tree.node = "BinOp" -> e_binop(tree, env, st)
      [] tree.node = "Parentheses" -> e(tree.val, env, st)
      [] tree.node = "If" -> e_if(tree, env, st)
      [] tree.node = "For" ->
            LET init == e(tree.init, env, st) IN
            IF init.k # "val" THEN init ELSE e_for(tree, env, init.st, NoneV)
      [] tree.node = "While" -> e_while(tree, env, st, NoneV)
      [] tree.node = "Print" ->
            LET value == e(tree.expr, env, st) IN
            IF value.k # "val" THEN value
            ELSE Val(value.v, [value.st EXCEPT
                        !.out = Append(value.st.out, PyStr(value.v))])
      [] tree.node = "FunctionCall" -> e_call(tree, env, st)
      [] tree.node = "Return" ->
            LET r == e(tree.value, env, st) IN
            IF r.k # "val" THEN r ELSE ReturnException(r.v, r.st)
      [] tree.node = "ArrayLiteral" ->
            LET els == e_list(tree.elements, 1, env, st, <<>>) IN
            IF els.k # "val" THEN els ELSE Val(ListV(els.v), els.st)
      [] tree.node = "ArrayIndex" -> e_index(tree, env, st)
      [] OTHER -> Raise("ValueError", "Unsupported node type", st)

\* e(tree) with env=None: a fresh Environment() and an empty output.
evaluate(tree) == e(tree, 1, [envs |-> <<Environment(0)>>, out |-> <<>>])

(***************************************************************************)
(* The pipeline as its callers run it (test.py, problems_by_TA.py):        *)
(* ast = parse(code); result = e(ast).  parse pulls the tokens of lex(s).  *)
(***************************************************************************)
(***************************************************************************)
(* Inputs: the source strings handed to parse, in families.  Each input    *)
(* records the family and the choices its text was built from.             *)
(***************************************************************************)
\* The text of an integer literal; a negative one is unary minus on digits.
Lit(n) == IF n < 0 THEN "-" \o NatStr(-n) ELSE NatStr(n)

RECURSIVE Join(_, _)
Join(parts, sep) ==
    IF Len(parts) = 0 THEN ""
    ELSE IF Len(parts) = 1 THEN parts[1]
    ELSE parts[1] \o sep \o Join(Tail(parts), sep)

\* --- scope: var x = 1 [; var y = 2]; <if or for around a body>; <probe> ---
MaxBody == 2

ScopeStmts == {"Dy", "Dx", "Ax", "Inc", "Ny"}

ScopeStmtText(id) ==
    CASE id = "Dy" -> "madarchod_ye_hai y = 7"
      [] id = "Dx" -> "madarchod_ye_hai x = 9"
      [] id = "Ax" -> "x = 5"
      [] id = "Inc" -> "x = x + 1"
      [] id = "Ny" -> "agr_teri_maa_chudi_aur 1 == 1 { madarchod_ye_hai y = 8; x = x + 2 }"

ScopeConstructs == {"then", "elseif", "else", "for"}

ScopeConstructText(c, body) ==
    CASE c = "then" -> "agr_teri_maa_chudi_aur 1 == 1 { " \o body \o " }"
      [] c = "elseif" ->
            "agr_teri_maa_chudi_aur 1 == 2 { 0 } varna agr_teri_maa_chudi_aur 2 == 2 { "
            \o body \o " }"
      [] c = "else" -> "agr_teri_maa_chudi_aur 1 == 2 { 0 } varna { " \o body \o " }"
      [] c = "for" ->
            "for (madarchod_ye_hai k = 0; k < 2; k = k + 1) { " \o body \o " }"

ScopeBodies == UNION {[1..n -> ScopeStmts] : n \in 1..MaxBody}

ScopeInputs ==
    {[fam |-> "scope", construct |-> c, body |-> b, outerY |-> oy, probe |-> pr,
      src |-> "madarchod_ye_hai x = 1; "
              \o (IF oy THEN "madarchod_ye_hai y = 2; " ELSE "")
              \o ScopeConstructText(c, Join([k \in 1..Len(b) |-> ScopeStmtText(b[k])], "; "))
              \o "; " \o pr] :
        c \in ScopeConstructs, b \in ScopeBodies, oy \in BOOLEAN, pr \in {"x", "y"}}

\* --- index: an array literal of n elements indexed by a literal ---
MaxArr == 3

MaxIdx == 4

ArrayText(n) == "[" \o Join([k \in 1..n |-> NatStr(10 * k)], ", ") \o "]"

IndexInputs ==
    {[fam |-> "index", n |-> n, idx |-> x,
      src |-> ArrayText(n) \o "[" \o Lit(x) \o "]"] :
        n \in 0..MaxArr, x \in (-MaxIdx)..MaxIdx}

\* --- e2e: the scenarios of the tests, spelled as the tests spell them ---
E2EInputs ==
    {[fam |-> "e2e", src |-> "5 + 3", expect |-> 8, prints |-> <<>>],
     [fam |-> "e2e", src |-> "var x = 10; x + 5", expect |-> 15, prints |-> <<>>],
     [fam |-> "e2e", src |-> "if 1 == 1 { 10 } else { 20 }", expect |-> 10, prints |-> <<>>],
     [fam |-> "e2e", src |-> "var x = 0; while ( x < 3 ) { x = x + 1 }; x",
      expect |-> 3, prints |-> <<>>],
     [fam |-> "e2e", src |-> "print(5+5)", expect |-> 10, prints |-> <<"10">>]}

\* --- misc: programs that end in each kind of failure ---
MiscInputs ==
    {[fam |-> "misc", src |-> txt] : txt \in
        {KwReturn \o " 5",
         KwIf \o " 1 == 1 { " \o KwReturn \o " 3 }",
         "1 / 0",
         "7 % 0",
         "max(5)",
         "max()",
         "nosuch(1)",
         "q",
         "q = 1",
         KwDef \o " f(a) { a }; f()",
         "[1, 2][1.5]",
         "[1, 2] - 1",
         "5[1]",
         KwPrint \o "(2 < 3); " \o KwPrint \o "(1.5 + 1); max(4, 9) + min([3, 1])"}}

\* --- closure: calls whose call site binds a name the callee also uses ---
MaxVal == 3

ClosureTemplates == {"free", "ifsite", "nested", "params", "assign"}

ClosureText(t, A, B) ==
    CASE t = "free" ->
            KwVar \o " x = " \o A \o "; " \o KwDef \o " f() { x }; "
            \o KwDef \o " g() { " \o KwVar \o " x = " \o B \o "; f() }; g()"
      [] t = "ifsite" ->
            KwVar \o " x = " \o A \o "; " \o KwDef \o " f() { x }; "
            \o KwIf \o " 1 == 1 { " \o KwVar \o " x = " \o B \o "; f() }"
      [] t = "nested" ->
            KwVar \o " x = " \o A \o "; " \o KwIf \o " 1 == 1 { "
            \o KwVar \o " x = " \o B \o "; " \o KwDef \o " f() { x }; "
            \o KwDef \o " g() { " \o KwVar \o " x = 0; f() }; g() }"
      [] t = "params" ->
            KwDef \o " h(a) { " \o KwVar \o " b = " \o A \o "; a = a + 1; a }; "
            \o KwDef \o " g() { " \o KwVar \o " a = " \o B \o "; "
            \o KwVar \o " b = " \o B \o "; h(" \o A \o "); a * 10 + b }; g()"
      [] t = "assign" ->
            KwVar \o " x = " \o A \o "; " \o KwDef \o " f() { x = x + 10 }; "
            \o KwDef \o " g() { " \o KwVar \o " x = " \o B \o "; f(); x }; g()"

ClosureInputs ==
    {[fam |-> "closure", template |-> t, A |-> ab[1], B |-> ab[2],
      src |-> ClosureText(t, NatStr(ab[1]), NatStr(ab[2]))] :
        t \in ClosureTemplates,
        ab \in {q \in (1..MaxVal) \X (1..MaxVal) : q[1] # q[2]}}

\* --- div: a / b on integer literals ---
MaxDiv == 6

DivInputs ==
    {[fam |-> "div", a |-> a, b |-> b, src |-> Lit(a) \o " / " \o Lit(b)] :
        a \in (-MaxDiv)..MaxDiv, b \in (-MaxDiv)..MaxDiv}

\* --- parse: malformed sources and empty blocks ---
ParseInputs ==
    {[fam |-> "parse", src |-> txt] : txt \in
        {KwIf \o " 1 == 1 { }",
         KwIf \o " 1 == 1 { 5",
         KwIf \o " 2 < 3 { 4 } " \o KwElse \o " " \o KwIf \o " { 5 }",
         KwIf \o " 1 == 1 { 5 } " \o KwElse \o " { }",
         KwWhile \o " (0) { }",
         KwDef \o " f() { }",
         "for (" \o KwVar \o " i = 0; i < 1; i = i + 1) { }",
         KwIf \o " 1 == 1 { ; }",
         "{ }",
         "(1 + 2",
         "1 +",
         "f(1, 2",
         "[1, 2",
         KwVar \o " = 3",
         KwDef \o " (a) { a }",
         "",
         "1 $ 2",
         "1.2.3",
         ") $"}}

\* --- nosemi: two statements with no `;` between them ---
NoSemiInputs ==
    {[fam |-> "nosemi", src |-> "var x = 10 x + 5"],
     [fam |-> "nosemi", src |-> KwVar \o " x = 10 x + 5"]}

\* --- return: a return at depth K of the loops of a function body ---
MaxK == 4

ReturnTemplates == {"for", "while", "outer", "deep"}

ReturnText(t, K) ==
    CASE t = "for" ->
            KwDef \o " f() { for (" \o KwVar \o " i = 0; i < 3; i = i + 1) { "
            \o KwPrint \o "(i); " \o KwIf \o " i == " \o K \o " { " \o KwPrint \o "(50); "
            \o KwReturn \o " i + 10; " \o KwPrint \o "(60) }; " \o KwPrint \o "(70) }; "
            \o KwPrint \o "(99); 77 }; f()"
      [] t = "while" ->
            KwDef \o " f() { " \o KwVar \o " i = 0; " \o KwWhile \o " (i < 3) { "
            \o KwIf \o " i == " \o K \o " { " \o KwReturn \o " i + 20 }; "
            \o KwPrint \o "(i); i = i + 1 }; 55 }; f()"
      [] t = "outer" ->
            KwDef \o " inner(n) { " \o KwIf \o " n == " \o K \o " { " \o KwReturn \o " 1; "
            \o KwPrint \o "(60) }; " \o KwPrint \o "(61); 2 }; "
            \o KwDef \o " outer() { " \o KwVar \o " r = inner(0); " \o KwPrint \o "(r); "
            \o KwReturn \o " r + 100; " \o KwPrint \o "(62) }; outer()"
      [] t = "deep" ->
            KwDef \o " f() { " \o KwVar \o " j = 0; " \o KwWhile \o " (j < 2) { for ("
            \o KwVar \o " i = 0; i < 2; i = i + 1) { " \o KwIf \o " j * 2 + i == " \o K
            \o " { " \o KwReturn \o " j + 30 }; " \o KwPrint \o "(j * 2 + i) }; j = j + 1 }; 44 }; f()"

ReturnInputs ==
    {[fam |-> "return", template |-> t, K |-> k, src |-> ReturnText(t, NatStr(k))] :
        t \in ReturnTemplates, k \in 0..MaxK}

\* --- for: loops of N iterations whose every step leaves a trace ---
MaxIter == 3

ForInputs ==
    LET ForText(t, N) ==
          CASE t = "trace" ->
                  KwDef \o " t(k, v) { " \o KwPrint \o "(k); " \o KwReturn \o " v }; "
                  \o KwVar \o " sum = 0; "
                  \o KwFor \o " (" \o KwVar \o " i = t(1, 0); t(2, i) < " \o N
                  \o "; i = t(4, i + 1)) { " \o KwVar
                  \o " y = i; sum = sum + y; t(3, i * 10) }"
            [] t = "fresh" ->
                  KwVar \o " n = 0; "
                  \o KwFor \o " (" \o KwVar \o " i = 0; i < " \o N \o "; i = i + 1) { "
                  \o KwIf \o " i > 0 { n = y }; " \o KwVar \o " y = 7 }; n"
            [] t = "skip" ->
                  KwVar \o " sum = 0; "
                  \o KwFor \o " ( " \o KwVar \o " i = 0; i < " \o N
                  \o "; i = i + 1 ) { sum = sum + i; i = i + 1; }; sum"
    IN {[fam |-> "for", template |-> t, N |-> n, src |-> ForText(t, NatStr(n))] :
            t \in {"trace", "fresh", "skip"}, n \in 0..MaxIter}

\* --- while: loops of K iterations whose body declares names ---
WhileInputs ==
    LET WhileText(t, K) ==
          CASE t = "after" ->
                  KwVar \o " n = 0; " \o KwWhile \o " (n < " \o K \o ") { "
                  \o KwVar \o " y = n * 10; n = n + 1 }; y"
            [] t = "cond" ->
                  KwVar \o " c = 0; " \o KwVar \o " n = 0; "
                  \o KwWhile \o " (n < " \o K \o " and c < " \o K \o " + 1) { c = c + 1; "
                  \o KwVar \o " n = c }; n"
            [] t = "later" ->
                  KwVar \o " n = 0; " \o KwVar \o " s = 0; "
                  \o KwWhile \o " (n < " \o K \o ") { " \o KwIf \o " n > 0 { s = s + y }; "
                  \o KwVar \o " y = n + 1; n = n + 1 }; s"
    IN {[fam |-> "while", template |-> t, K |-> k, src |-> WhileText(t, NatStr(k))] :
            t \in {"after", "cond", "later"}, k \in 0..MaxIter}

\* --- binop: L op R where each operand is a call that prints and counts ---
MaxOperand == 2

BinOpInputs ==
    LET Ops == {"**", "*", "/", "%", "+", "-", "<", "<=", ">", ">=", "==", "!=",
                "and", "or"}
        Head2 == KwVar \o " c = 0; " \o KwDef \o " t(k, v) { " \o KwPrint
                 \o "(k); c = c + 1; " \o KwReturn \o " v }; "
    IN {[fam |-> "binop", template |-> "both", o |-> o, L |-> l, R |-> r,
         src |-> Head2 \o "t(1, " \o NatStr(l) \o ") " \o o \o " t(2, " \o NatStr(r) \o ")"] :
            o \in Ops, l \in 0..MaxOperand, r \in 0..MaxOperand}
       \cup
       {[fam |-> "binop", template |-> "rerr", o |-> o, L |-> l, R |-> 0,
         src |-> Head2 \o "t(1, " \o NatStr(l) \o ") " \o o \o " q"] :
            o \in Ops, l \in 0..MaxOperand}

\* --- builtin: calls of max, min, a user function named max, and others ---
MaxArgs == 3

BuiltinInputs ==
    LET ArgText(xs) == Join([n \in 1..Len(xs) |-> NatStr(xs[n])], ", ")
        Tuples == UNION {[1..k -> 1..3] : k \in 1..MaxArgs}
    IN {[fam |-> "builtin", template |-> "builtin", name |-> f, xs |-> xs,
         src |-> f \o "(" \o ArgText(xs) \o ")"] : f \in {"max", "min"}, xs \in Tuples}
       \cup
       {[fam |-> "builtin", template |-> "user", name |-> f, xs |-> xs,
         src |-> KwDef \o " " \o f \o "(a, b) { a + b + 100 }; "
                 \o f \o "(" \o ArgText(xs) \o ")"] :
            f \in {"max", "min"}, xs \in [1..2 -> 1..3]}
       \cup
       {[fam |-> "builtin", template |-> "unknown", name |-> f, xs |-> xs,
         src |-> f \o "(" \o ArgText(xs) \o ")"] :
            f \in {"maximum", "abs"}, xs \in [1..2 -> 1..3]}

Inputs ==
    ScopeInputs \cup IndexInputs \cup E2EInputs \cup MiscInputs \cup ClosureInputs
    \cup DivInputs \cup ParseInputs \cup NoSemiInputs \cup ReturnInputs
    \cup ForInputs \cup WhileInputs \cup BinOpInputs \cup BuiltinInputs

Init ==
    /\ inp \in Inputs
    /\ src = inp.src
    /\ i = 0
    /\ toks = <<>>
    /\ pc = "lex"
    /\ ast = NoneNode
    /\ res = NoneNode
    /\ envs = <<>>
    /\ op = NoneNode

\* One pass of the loop of lex: a token is yielded, the generator returns,
\* or it raises.
LexStep ==
    /\ pc = "lex"
    /\ LET r == lex(src, i) IN
       /\ i' = r.i
       /\ toks' = IF r.tok.type = "StopIteration" THEN toks ELSE Append(toks, r.tok)
       /\ pc' = IF r.tok.type \in {"StopIteration", "ValueError"} THEN "parse" ELSE "lex"
    /\ UNCHANGED <<inp, src, ast, res, envs, op>>

ParseStep ==
    /\ pc = "parse"
    /\ ast' = parse(toks)
    /\ pc' = IF ast'.ok THEN "eval" ELSE "done"
    /\ UNCHANGED <<inp, src, i, toks, res, envs, op>>

EvalStep ==
    /\ pc = "eval"
    /\ res' = evaluate(ast.node)
    /\ pc' = "done"
    /\ UNCHANGED <<inp, src, i, toks, ast, envs, op>>

Next == LexStep \/ ParseStep \/ EvalStep

Spec == Init /\ [][Next]_vars

\* --- lex: every string of up to MaxLex characters of a small alphabet ---
MaxLex == 3

\* lex(s) is called: the cursor is at 0 and nothing has been yielded.  The
\* strings are those over the alphabet and the short programs of Inputs.
LexInit ==
    LET Alphabet == {"1", ".", "a", " ", "<", "=", "!", "*", "(", "$"}
        Strings == {[fam |-> "lex", src |-> Join(cs, "")] :
                        cs \in UNION {[1..n -> Alphabet] : n \in 0..MaxLex}}
        Programs == {x \in Inputs : x.fam \in {"e2e", "misc", "parse", "nosemi"}}
    IN /\ inp \in Strings \cup Programs
       /\ src = inp.src
       /\ i = 0
       /\ toks = <<>>
       /\ pc = "lex"
       /\ ast = NoneNode
       /\ res = NoneNode
       /\ envs = <<>>
       /\ op = NoneNode

\* The generator of lex alone, drained by a consumer that keeps asking for
\* the next token.
LexSpec == LexInit /\ [][LexStep]_vars /\ WF_vars(LexStep)

(***************************************************************************)
(* The scope level: e(tree, env) called on the scopes of a running         *)
(* program.  envs holds the Environment objects, op the last call made.    *)
(* A scope is opened as If, For and FunctionCall open one; declarations,   *)
(* assignments and references are evaluated in any scope that exists.      *)
(***************************************************************************)
MaxEnvs == 2

EnvNames == {"x", "y"}

EnvInit ==
    /\ envs = <<Environment(0)>>
    /\ op = [kind |-> "init"]
    /\ inp = [fam |-> "env", src |-> ""]
    /\ src = ""
    /\ i = 0
    /\ toks = <<>>
    /\ pc = "env"
    /\ ast = NoneNode
    /\ res = NoneNode

\* Environment(env)
OpenScope(parent) ==
    /\ Len(envs) < MaxEnvs
    /\ envs' = Append(envs, Environment(parent))
    /\ op' = [kind |-> "scope"]
    /\ UNCHANGED <<inp, src, i, toks, pc, ast, res>>

\* e(VarDecl(name, Int("1")), self)
EvalVarDecl(self, name) ==
    LET r == e(VarDecl(name, IntLit("1")), self, [envs |-> envs, out |-> <<>>]) IN
    /\ envs' = r.st.envs
    /\ op' = [kind |-> "declare"]
    /\ UNCHANGED <<inp, src, i, toks, pc, ast, res>>

\* e(Assignment(name, Int("2")), self)
EvalAssignment(self, name) ==
    LET r == e(Assignment(name, IntLit("2")), self, [envs |-> envs, out |-> <<>>]) IN
    /\ envs' = r.st.envs
    /\ op' = [kind |-> "assign", self |-> self, name |-> name,
              outcome |-> IF r.k = "val" THEN RV(r.v) ELSE RX(r.exc, r.msg)]
    /\ UNCHANGED <<inp, src, i, toks, pc, ast, res>>

\* e(VarReference(name), self)
EvalVarReference(self, name) ==
    LET r == e(VarReference(name), self, [envs |-> envs, out |-> <<>>]) IN
    /\ envs' = r.st.envs
    /\ op' = [kind |-> "reference", self |-> self, name |-> name,
              outcome |-> IF r.k = "val" THEN RV(r.v) ELSE RX(r.exc, r.msg)]
    /\ UNCHANGED <<inp, src, i, toks, pc, ast, res>>

EnvNext ==
    \E self \in 1..Len(envs) :
        \/ OpenScope(self)
        \/ \E name \in EnvNames :
              \/ EvalVarDecl(self, name)
              \/ EvalAssignment(self, name)
              \/ EvalVarReference(self, name)

EnvSpec == EnvInit /\ [][EnvNext]_vars

(***************************************************************************)
(* Claims                                                                  *)
(***************************************************************************)
Done == pc = "done"

\* The scope e(tree) created for the program: the first Environment.
RootValues == res.st.envs[1].values

\* What one run of a scope-family body does to the binding of x that the
\* enclosing scope holds: a statement reaches it until the body declares
\* its own x.
RECURSIVE ScopeBodyRun(_, _, _, _)
ScopeBodyRun(b, k, outer, shadowed) ==
    IF k > Len(b) THEN outer
    ELSE CASE b[k] = "Dx" -> ScopeBodyRun(b, k + 1, outer, TRUE)
           [] b[k] = "Ax" -> ScopeBodyRun(b, k + 1, IF shadowed THEN outer ELSE 5, shadowed)
           [] b[k] = "Inc" ->
                ScopeBodyRun(b, k + 1, IF shadowed THEN outer ELSE outer + 1, shadowed)
           [] b[k] = "Ny" ->
                ScopeBodyRun(b, k + 1, IF shadowed THEN outer ELSE outer + 2, shadowed)
           [] b[k] = "Dy" -> ScopeBodyRun(b, k + 1, outer, shadowed)

\* The for loop of the family runs its body twice, an if branch once.
ScopeExpectedX(in) ==
    IF in.construct = "for"
    THEN ScopeBodyRun(in.body, 1, ScopeBodyRun(in.body, 1, 1, FALSE), FALSE)
    ELSE ScopeBodyRun(in.body, 1, 1, FALSE)

\* C1: after an if branch or a for body has run, a name the body declared
\* with var is not defined in the enclosing scope (a later reference to it
\* fails as undefined, or sees the older outer binding unchanged), and the
\* body's assignments to an outer name are visible after the construct.
C1_ScopeOfBodyDeclarations ==
    (Done /\ inp.fam = "scope") =>
        /\ ast.ok
        /\ ("y" \in DOMAIN RootValues) = inp.outerY
        /\ inp.outerY => RootValues["y"] = IntV(2)
        /\ RootValues["x"] = IntV(ScopeExpectedX(inp))
        /\ (inp.probe = "y" /\ inp.outerY) => (res.k = "val" /\ res.v = IntV(2))
        /\ (inp.probe = "y" /\ ~inp.outerY) =>
                (res.k = "raise" /\ res.exc = "ValueError"
                                 /\ res.msg = "Variable not defined")
        /\ inp.probe = "x" => (res.k = "val" /\ res.v = IntV(ScopeExpectedX(inp)))

\* A for body that declared y and assigned the outer x has run, and the
\* reference to y after the loop failed.
C1_Witness ==
    /\ Done /\ inp.fam = "scope" /\ inp.construct = "for"
    /\ inp.body = <<"Dy", "Ax">> /\ ~inp.outerY /\ inp.probe = "y"
    /\ res.k = "raise"
    /\ \E n \in 2..Len(res.st.envs) : "y" \in DOMAIN res.st.envs[n].values
    /\ RootValues["x"] = IntV(5)

\* C2: an array of n elements indexed by i yields its i-th element exactly
\* when 1 <= i <= n, and every other i fails with the evaluator's
\* IndexOutOfRange error (a ValueError of e, not a host container error).
C2_IndexRangeChecked ==
    (Done /\ inp.fam = "index") =>
        IF 1 <= inp.idx /\ inp.idx <= inp.n
        THEN res.k = "val" /\ res.v = IntV(10 * inp.idx)
        ELSE res.k = "raise" /\ res.exc = "ValueError"

\* C3: each end-to-end scenario, spelled with var, if, else, while and
\* print, parses, evaluates to its expected value and prints its lines.
C3_EndToEndScenarios ==
    (Done /\ inp.fam = "e2e") =>
        /\ ast.ok
        /\ res.k = "val"
        /\ res.v = IntV(inp.expect)
        /\ res.st.out = inp.prints

\* C4: evaluate returns a value or fails with one of its own runtime
\* errors (the ValueErrors e raises); nothing else reaches the caller, and
\* never the return signal.
C4_ValueOrRuntimeError ==
    (Done /\ ast.ok) => (res.k = "val" \/ (res.k = "raise" /\ res.exc = "ValueError"))

ClosureExpected(in) ==
    CASE in.template = "free" -> in.A
      [] in.template = "ifsite" -> in.A
      [] in.template = "nested" -> in.B
      [] in.template = "params" -> 11 * in.B
      [] in.template = "assign" -> in.B

\* The scope of each call's body, by its place among the Environment
\* objects created, hangs under the scope the function was defined in.
ClosureParents(in, es) ==
    CASE in.template \in {"free", "assign", "params"} ->
            es[2].parent = 1 /\ es[3].parent = 1
      [] in.template = "ifsite" -> es[3].parent = 1
      [] in.template = "nested" -> es[3].parent = 2 /\ es[4].parent = 2

\* C5: a called function's body runs in a new scope under the scope the
\* function was defined in: a free name resolves through the defining chain
\* even when the call site binds the same name elsewhere, and the callee's
\* var declarations and parameters never touch the caller's bindings.
C5_LexicalScoping ==
    (Done /\ inp.fam = "closure") =>
        /\ ast.ok
        /\ res.k = "val"
        /\ res.v = IntV(ClosureExpected(inp))
        /\ ClosureParents(inp, res.st.envs)
        /\ inp.template = "assign" =>
                /\ RootValues["x"] = IntV(inp.A + 10)
                /\ res.st.envs[2].values["x"] = IntV(inp.B)
        /\ inp.template = "params" =>
                /\ DOMAIN RootValues = {"h", "g"}
                /\ res.st.envs[2].values["a"] = IntV(inp.B)
                /\ res.st.envs[2].values["b"] = IntV(inp.B)
                /\ res.st.envs[3].values["a"] = IntV(inp.A + 1)
                /\ res.st.envs[3].values["b"] = IntV(inp.A)

\* f was called from g, whose scope binds x to another value than the
\* scope f was defined in, and the call returned the defining scope's x.
C5_Witness ==
    /\ Done /\ inp.fam = "closure" /\ inp.template = "free"
    /\ inp.A = 1 /\ inp.B = 2
    /\ res.k = "val" /\ res.v = IntV(1)
    /\ res.st.envs[2].values["x"] = IntV(2)

Parsed == pc \in {"eval", "done"}

\* The generator lex(s) ran to its end without raising.
LexedClean == \A n \in 1..Len(toks) : toks[n].type # "ValueError"

\* C7: on a token sequence the lexer produced, parse returns one AST root
\* or fails with ParseError, an empty `{ }` block included.
C7_ParseFailsOnlyWithParseError ==
    (Parsed /\ LexedClean) => (ast.ok \/ ast.exc = "ParseError")

\* C8: a declaration followed by another statement with no `;` between
\* them is rejected with ParseError.
C8_MissingSemicolonRejected ==
    (Parsed /\ inp.fam = "nosemi") => (~ast.ok /\ ast.exc = "ParseError")

\* The lines the numbers lo..hi-1 are printed as.
Counted(lo, hi) == [m \in 1..(IF hi > lo THEN hi - lo ELSE 0) |-> NatStr(lo + m - 1)]

\* The value a return-family call ends with: the returned value when the
\* return at step K is reached, else the value of the body's last statement.
ReturnExpectedValue(in) ==
    CASE in.template = "for" -> IF in.K < 3 THEN in.K + 10 ELSE 77
      [] in.template = "while" -> IF in.K < 3 THEN in.K + 20 ELSE 55
      [] in.template = "outer" -> IF in.K = 0 THEN 101 ELSE 102
      [] in.template = "deep" -> IF in.K < 4 THEN (in.K \div 2) + 30 ELSE 44

\* The lines printed up to the return, and none of those after it.
ReturnExpectedOut(in) ==
    CASE in.template = "for" ->
            IF in.K < 3
            THEN [m \in 1..(2 * in.K) |-> IF m % 2 = 1 THEN NatStr((m - 1) \div 2) ELSE "70"]
                 \o <<NatStr(in.K), "50">>
            ELSE <<"0", "70", "1", "70", "2", "70", "99">>
      [] in.template = "while" -> Counted(0, IF in.K < 3 THEN in.K ELSE 3)
      [] in.template = "outer" -> IF in.K = 0 THEN <<"1">> ELSE <<"61", "2">>
      [] in.template = "deep" -> Counted(0, IF in.K < 4 THEN in.K ELSE 4)

\* The loop counters in the scope of the call (the second Environment) at
\* the moment the call ended: no increment ran after the return.
ReturnExpectedCounters(in, values) ==
    CASE in.template = "for" -> values["i"] = IntV(IF in.K < 3 THEN in.K ELSE 3)
      [] in.template = "while" -> values["i"] = IntV(IF in.K < 3 THEN in.K ELSE 3)
      [] in.template = "outer" -> values["r"] = IntV(IF in.K = 0 THEN 1 ELSE 2)
      [] in.template = "deep" ->
            /\ values["j"] = IntV(IF in.K < 4 THEN in.K \div 2 ELSE 2)
            /\ values["i"] = IntV(IF in.K < 4 THEN in.K % 2 ELSE 2)

\* C10: a return inside a function body, at any depth of blocks, ifs, for
\* and while loops, ends the innermost call at once with the returned
\* value: no later statement, iteration or for increment runs, the caller
\* carries on, and a body that ends without return yields its last value.
C10_ReturnUnwinding ==
    (Done /\ inp.fam = "return") =>
        /\ ast.ok
        /\ res.k = "val"
        /\ res.v = IntV(ReturnExpectedValue(inp))
        /\ res.st.out = ReturnExpectedOut(inp)
        /\ ReturnExpectedCounters(inp, res.st.envs[2].values)

\* A return in an if branch inside the second iteration of a for loop has
\* ended the call.
C10_Witness ==
    /\ Done /\ inp.fam = "return" /\ inp.template = "for" /\ inp.K = 1
    /\ res.k = "val" /\ res.v = IntV(11)
    /\ res.st.out = <<"0", "70", "1", "50">>

\* The scopes from self outwards to the outermost one.
RECURSIVE ChainOf(_, _)
ChainOf(es, self) == IF self = 0 THEN <<>> ELSE <<self>> \o ChainOf(es, es[self].parent)

\* The places on the chain of self whose scope defines name.
DefinedAt(es, self, name) ==
    {n \in 1..Len(ChainOf(es, self)) : name \in DOMAIN es[ChainOf(es, self)[n]].values}

\* The innermost scope on the chain of self that defines name.
Innermost(es, self, name) ==
    ChainOf(es, self)[CHOOSE n \in DefinedAt(es, self, name) :
                        \A m \in DefinedAt(es, self, name) : n <= m]

Undefined(outcome) ==
    outcome.k = "raise" /\ outcome.exc = "ValueError" /\ outcome.msg = "Variable not defined"

\* es2 is es1 but for the one binding of name in scope target, now value.
OnlyChanged(es1, es2, target, name, value) ==
    /\ Len(es2) = Len(es1)
    /\ \A n \in 1..Len(es1) :
          /\ es2[n].parent = es1[n].parent
          /\ DOMAIN es2[n].values = DOMAIN es1[n].values
          /\ \A m \in DOMAIN es1[n].values :
                es2[n].values[m] = IF n = target /\ m = name THEN value
                                   ELSE es1[n].values[m]

\* C9: a reference or an assignment to a name no scope on the chain defines
\* fails as undefined; a failed assignment leaves every scope as it was and
\* creates no binding; a successful one changes only the binding of the
\* innermost scope that defines the name; a reference yields that binding.
C9_NameResolution ==
    [][/\ op'.kind = "assign" =>
            IF DefinedAt(envs, op'.self, op'.name) = {}
            THEN Undefined(op'.outcome) /\ envs' = envs
            ELSE /\ op'.outcome = RV(IntV(2))
                 /\ OnlyChanged(envs, envs', Innermost(envs, op'.self, op'.name),
                                op'.name, IntV(2))
       /\ op'.kind = "reference" =>
            /\ envs' = envs
            /\ IF DefinedAt(envs, op'.self, op'.name) = {}
               THEN Undefined(op'.outcome)
               ELSE op'.outcome =
                        RV(envs[Innermost(envs, op'.self, op'.name)].values[op'.name])
      ]_vars

\* An assignment to x made in an inner scope that does not define x has
\* reached the outer scope, while y, declared in both, kept its values.
C9_Witness ==
    /\ Len(envs) = 2 /\ envs[2].parent = 1
    /\ op.kind = "assign" /\ op.self = 2 /\ op.name = "x" /\ op.outcome.k = "val"
    /\ DOMAIN envs[2].values = {"y"} /\ envs[2].values["y"] = IntV(1)
    /\ DOMAIN envs[1].values = {"x", "y"}
    /\ envs[1].values["x"] = IntV(2) /\ envs[1].values["y"] = IntV(1)

\* The lines a traced loop of N iterations prints: 1 for the initializer,
\* then 2, 3, 4 for the condition, body and increment of each iteration,
\* then 2 for the condition that ends the loop.
ForExpectedTrace(N) ==
    [m \in 1..(3 * N + 2) |->
        IF m = 1 THEN "1"
        ELSE IF m = 3 * N + 2 THEN "2"
        ELSE <<"2", "3", "4">>[((m - 2) % 3) + 1]]

\* The Environment objects that hold a y: the scopes of the loop bodies.
BodyScopes(es) == {n \in 1..Len(es) : "y" \in DOMAIN es[n].values}

\* Sum of the even numbers below N.
RECURSIVE SumEvenBelow(_)
SumEvenBelow(N) ==
    IF N <= 0 THEN 0
    ELSE SumEvenBelow(N - 1) + (IF (N - 1) % 2 = 0 THEN N - 1 ELSE 0)

\* C11: a for loop evaluates its initializer once in the enclosing scope,
\* then per iteration the condition, the body in a scope of its own under
\* the loop scope, and the increment in the loop scope; it ends at the first
\* falsy condition with the last body value (None when the body never ran);
\* a body's var is gone when the next body starts, and a body's assignment
\* to the loop variable is seen by the increment and the condition.
C11_ForLoopProtocol ==
    (Done /\ inp.fam = "for") =>
        /\ ast.ok
        /\ inp.template = "trace" =>
              /\ res.k = "val"
              /\ res.v = IF inp.N = 0 THEN NoneV ELSE IntV(10 * (inp.N - 1))
              /\ res.st.out = ForExpectedTrace(inp.N)
              /\ DOMAIN RootValues = {"t", "sum", "i"}
              /\ RootValues["i"] = IntV(inp.N)
              /\ RootValues["sum"] = IntV((inp.N * (inp.N - 1)) \div 2)
              /\ Cardinality(BodyScopes(res.st.envs)) = inp.N
              /\ \A n \in BodyScopes(res.st.envs) :
                    /\ res.st.envs[n].parent = 1
                    /\ DOMAIN res.st.envs[n].values = {"y"}
              /\ {res.st.envs[n].values["y"] : n \in BodyScopes(res.st.envs)}
                    = {IntV(j) : j \in 0..(inp.N - 1)}
        /\ inp.template = "fresh" =>
              IF inp.N >= 2
              THEN res.k = "raise" /\ res.exc = "ValueError"
                                   /\ res.msg = "Variable not defined"
                                   /\ RootValues["n"] = IntV(0)
              ELSE res.k = "val" /\ res.v = IntV(0)
        /\ inp.template = "skip" =>
              /\ res.k = "val"
              /\ res.v = IntV(SumEvenBelow(inp.N))
              /\ RootValues["i"] = IntV(inp.N + (inp.N % 2))

\* A traced loop ran two iterations; each body had its own scope.
C11_Witness ==
    /\ Done /\ inp.fam = "for" /\ inp.template = "trace" /\ inp.N = 2
    /\ res.k = "val" /\ res.v = IntV(10)
    /\ res.st.out = <<"1", "2", "3", "4", "2", "3", "4", "2">>
    /\ Cardinality(BodyScopes(res.st.envs)) = 2

\* C12: every iteration of a while body runs in the scope that contains the
\* loop and no scope is created for it: a var of the body is a binding of
\* that scope, seen by the condition, by later iterations and after the
\* loop, and redeclaring it overwrites the same binding.
C12_WhileBodyInLoopScope ==
    (Done /\ inp.fam = "while") =>
        /\ ast.ok
        /\ \A n \in 2..Len(res.st.envs) : res.st.envs[n].values = <<>>
        /\ inp.template = "after" =>
              /\ Len(res.st.envs) = 1
              /\ RootValues["n"] = IntV(inp.K)
              /\ IF inp.K = 0
                 THEN /\ res.k = "raise" /\ res.exc = "ValueError"
                      /\ DOMAIN RootValues = {"n"}
                 ELSE /\ res.k = "val" /\ res.v = IntV(10 * (inp.K - 1))
                      /\ DOMAIN RootValues = {"n", "y"}
                      /\ RootValues["y"] = IntV(10 * (inp.K - 1))
        /\ inp.template = "cond" =>
              /\ Len(res.st.envs) = 1
              /\ res.k = "val" /\ res.v = IntV(inp.K)
              /\ DOMAIN RootValues = {"c", "n"}
              /\ RootValues["c"] = IntV(inp.K)
        /\ inp.template = "later" =>
              /\ res.k = "val"
              /\ res.v = IntV((inp.K * (inp.K - 1)) \div 2)
              /\ inp.K > 0 => RootValues["y"] = IntV(inp.K)

\* A loop of two iterations declared y in its body and the statement after
\* the loop read the value of the last iteration from the enclosing scope.
C12_Witness ==
    /\ Done /\ inp.fam = "while" /\ inp.template = "after" /\ inp.K = 2
    /\ res.k = "val" /\ res.v = IntV(10)
    /\ Len(res.st.envs) = 1 /\ RootValues["y"] = IntV(10)

\* C13: a binary operator, `and` and `or` included, evaluates its left
\* operand, then its right operand whatever the left value is, and only
\* then combines them: the effects of both operands happen, left first,
\* and an error raised by the right operand comes out even when the left
\* operand alone decides the logical outcome.
C13_OperandOrder ==
    (Done /\ inp.fam = "binop") =>
        /\ ast.ok
        /\ inp.template = "both" =>
              /\ res.st.out = <<"1", "2">>
              /\ RootValues["c"] = IntV(2)
              /\ inp.o = "and" =>
                    (res.k = "val" /\ res.v = IntV(IF inp.L = 0 THEN 0 ELSE inp.R))
              /\ inp.o = "or" =>
                    (res.k = "val" /\ res.v = IntV(IF inp.L # 0 THEN inp.L ELSE inp.R))
        /\ inp.template = "rerr" =>
              /\ res.k = "raise" /\ res.exc = "ValueError"
              /\ res.msg = "Variable not defined"
              /\ res.st.out = <<"1">>
              /\ RootValues["c"] = IntV(1)

\* `and` with a falsy left operand still called its right operand.
C13_Witness ==
    /\ Done /\ inp.fam = "binop" /\ inp.template = "both"
    /\ inp.o = "and" /\ inp.L = 0 /\ inp.R = 1
    /\ res.k = "val" /\ res.v = IntV(0)
    /\ res.st.out = <<"1", "2">> /\ RootValues["c"] = IntV(2)

\* The largest and the smallest of a non-empty tuple of numbers.
Largest(xs) == CHOOSE m \in {xs[n] : n \in DOMAIN xs} : \A n \in DOMAIN xs : xs[n] <= m

Smallest(xs) == CHOOSE m \in {xs[n] : n \in DOMAIN xs} : \A n \in DOMAIN xs : m <= xs[n]

\* C14: max and min called with k >= 1 numbers, k = 1 included, return the
\* largest and the smallest argument; a user function of that name is
\* called instead of the built-in; any other name that is no user function
\* fails as an unknown function.
C14_BuiltinMaxMin ==
    (Done /\ inp.fam = "builtin") =>
        /\ ast.ok
        /\ inp.template = "builtin" =>
              /\ res.k = "val"
              /\ res.v = IntV(IF inp.name = "max" THEN Largest(inp.xs)
                                                  ELSE Smallest(inp.xs))
        /\ inp.template = "user" =>
              (res.k = "val" /\ res.v = IntV(inp.xs[1] + inp.xs[2] + 100))
        /\ inp.template = "unknown" =>
              (res.k = "raise" /\ res.exc = "ValueError" /\ res.msg = "Unknown function")

\* The texts of the tokens, one after the other.
RECURSIVE ConcatText(_)
ConcatText(ts) ==
    IF Len(ts) = 0 THEN ""
    ELSE IF Len(ts) = 1 THEN ts[1].v
    ELSE LET h == Len(ts) \div 2 IN
         ConcatText(SubSeq(ts, 1, h)) \o ConcatText(SubSeq(ts, h + 1, Len(ts)))

\* The string without its whitespace characters.
RECURSIVE StripSpace(_)
StripSpace(s) ==
    IF Len(s) = 0 THEN ""
    ELSE IF Len(s) = 1 THEN (IF IsSpace(s) THEN "" ELSE s)
    ELSE LET h == Len(s) \div 2 IN
         StripSpace(SubSeq(s, 1, h)) \o StripSpace(SubSeq(s, h + 1, Len(s)))

\* C15: the lexer terminates; every step that yields a token moves the
\* cursor forward, and lexing ends with the input exhausted or with a
\* failure; after a run without failure the token texts concatenated are
\* the source without its whitespace; a two-character operator at the
\* cursor is emitted as one token.
C15_LexerProgressLossless ==
    /\ <>(pc # "lex")
    /\ [][pc = "lex" =>
            /\ i' >= i /\ i' <= Len(src)
            /\ pc' = "lex" => (i' > i /\ Len(toks') = Len(toks) + 1)
            /\ pc' # "lex" =>
                  \/ i' = Len(src) /\ toks' = toks
                  \/ toks'[Len(toks')].type = "ValueError"
            /\ Slice2(src, SkipSpace(src, i)) \in {"<=", ">=", "==", "!=", "**"} =>
                  /\ toks' = Append(toks, OperatorToken(Slice2(src, SkipSpace(src, i))))
                  /\ i' = SkipSpace(src, i) + 2
       ]_vars
    /\ []((pc # "lex" /\ pc # "env" /\ LexedClean) => ConcatText(toks) = StripSpace(src))

\* `1<=` has been lexed to the end: an integer and one two-character token.
C15_Witness ==
    /\ pc = "parse" /\ src = "1<=" /\ i = 3
    /\ toks = <<IntToken("1"), OperatorToken("<=")>>

====
